---------------------------- MODULE Spec2Model ----------------------------
(***************************************************************************)
(* Model of MonacoSemanticHighlightingService                              *)
(* (packages/monaco/src/browser/monaco-semantic-highlighting-service.ts):  *)
(* the per-document cache of semantic highlighting ranges and decoration   *)
(* handles, its asynchronous decorate() operation, the editor-close        *)
(* callback deleteDecorations() and dispose().                             *)
(*                                                                         *)
(* The editor manager, the editor's deltaDecorations and the editor's      *)
(* onDispose event are collaborators whose code is outside the modelled    *)
(* files; they are modelled from their interface contract.                 *)
(***************************************************************************)
EXTENDS Integers, Sequences, FiniteSets

(***************************************************************************)
(* Bounds of the model.                                                    *)
(***************************************************************************)
MaxLine == 1          \* start lines are 0..MaxLine
MaxBatchLen == 2      \* ranges per update batch
MaxUpdates == 2       \* decorate() calls in one behaviour
MaxOpens == 2         \* editors opened in one behaviour
MaxMergeLen == 2      \* length of the range lists given to mergeRanges alone
MaxResolvers == 3     \* resource resolvers given to DefaultResourceProvider
MaxStorageOps == 3    \* setData / getData calls in one behaviour
MaxRemember == 3      \* remember() calls in one behaviour

Docs == {"a", "b"}
Lines == 0..MaxLine
LineCounts == 1..(MaxLine + 1)

(***************************************************************************)
(* A SemanticHighlightingRange.  Only start.line is read by the service;   *)
(* `batch` stands for the rest of the range (columns, end, scopes) and     *)
(* tells apart the ranges of different update batches.                     *)
(***************************************************************************)
HRange(l, b) == [line |-> l, batch |-> b]

SeqsUpTo(S, n) == UNION {[1..k -> S] : k \in 0..n}

Elems(s) == {s[i] : i \in 1..Len(s)}

(***************************************************************************)
(* mergeRanges.  RetainOld is the predicate given to oldRanges.filter;     *)
(* FilterOld is Array.prototype.filter with that predicate.                *)
(***************************************************************************)
\* variant of RetainOld that forgets the line count
RetainOld_NoBoundsCheck(r, affectedLines, lineCount) ==
    r.line \notin affectedLines

\* variant of RetainOld that forgets the affected lines
RetainOld_NoAffectedCheck(r, affectedLines, lineCount) ==
    r.line < lineCount

RetainOld(r, affectedLines, lineCount) ==
    /\ r.line \notin affectedLines
    /\ r.line < lineCount

RECURSIVE FilterOld(_, _, _)
FilterOld(rs, affectedLines, lineCount) ==
    IF rs = <<>> THEN <<>>
    ELSE (IF RetainOld(Head(rs), affectedLines, lineCount)
            THEN <<Head(rs)>> ELSE <<>>)
         \o FilterOld(Tail(rs), affectedLines, lineCount)

\* mergeRanges(model, oldRanges, newRanges), with lineCount = model.getLineCount()
mergeRanges(lineCount, oldRanges, newRanges) ==
    LET affectedLines == {newRanges[i].line : i \in 1..Len(newRanges)}
    IN  FilterOld(oldRanges, affectedLines, lineCount) \o newRanges

(***************************************************************************)
(* State.                                                                  *)
(***************************************************************************)
VARIABLES
    \* the editors (collaborators of the service)
    view,            \* per document: is an editor open, its kind, its instance number
    viewHandles,     \* per document: decoration ids live on its open editor
    nextHandle,      \* per document: decoration ids handed out so far
    \* MonacoSemanticHighlightingService
    decorations,             \* Map<string, DecorationWithRanges>
    toDisposeOnEditorClose,  \* Map<string, Disposable>
    \* decorate() calls suspended at `await this.editorManager.getByUri(uri)`
    pending,         \* calls whose lookup has not settled
    ready,           \* calls whose lookup settled, in settling order (job queue)
    nextCall,        \* decorate() calls started so far
    \* history variables, read only by the properties
    last,            \* the operation that made the last step
    lastCalls,       \* the deltaDecorations calls made by the last step
    lastRet,         \* per document: handles returned by its latest deltaDecorations call
    latest,          \* per document and line: latest applied batch with a range on the line
    serial,          \* per document: ranges held by a one-call-at-a-time execution
    svcDisposed,     \* dispose() has been called
    listeners,       \* per document: onDispose registrations made and not yet disposed
    fresh,           \* per document: reopened after a close, no decorate() reached the editor yet
    \* a single mergeRanges call on chosen arguments
    mrg,
    \* DefaultResourceProvider: its resolvers and one get(uri) call
    rp,
    \* LocalStorageService: storage, fullstorage, and the calls made on it
    ls,
    \* ElectronRemoteContribution: remember() calls suspended at the await
    rem

vars == <<view, viewHandles, nextHandle, decorations,
          toDisposeOnEditorClose, pending, ready, nextCall, last, lastCalls,
          lastRet, latest, serial, svcDisposed, listeners, fresh, mrg, rp, ls, rem>>

envVars == <<view, viewHandles, nextHandle>>
svcVars == <<decorations, toDisposeOnEditorClose>>
callVars == <<pending, ready, nextCall>>
histVars == <<lastRet, latest, serial, svcDisposed, listeners, fresh>>

\* Map helpers: a Map is a function whose domain is its key set.
MapSet(m, k, v) == [x \in DOMAIN m \cup {k} |-> IF x = k THEN v ELSE m[x]]
MapDelete(m, k) == [x \in DOMAIN m \ {k} |-> m[x]]
EmptyMap == [x \in {} |-> 0]

\* DecorationWithRanges.EMPTY
EMPTY == [decorations |-> <<>>, ranges |-> <<>>]

NoWidget == [kind |-> "none", gen |-> 0]
NoOp == [op |-> "other", doc |-> "a", widget |-> NoWidget, outcome |-> "none",
         raced |-> FALSE]

MrgIdle == [pc |-> "idle", lineCount |-> 0, oldRanges |-> <<>>,
            newRanges |-> <<>>, result |-> <<>>]

\* values a promise settles with, or an exception carries
NoValue == [type |-> "none", from |-> 0]
NoResult == [kind |-> "none", value |-> NoValue]

RpIdle == [pc |-> "idle", defined |-> FALSE, resolvers |-> <<>>,
           called |-> <<>>, cur |-> 0, result |-> NoResult]

\* JavaScript values handed to and returned by the storage service
JsUndefined == [type |-> "undefined", num |-> 0, items |-> <<>>]
JsNull == [type |-> "null", num |-> 0, items |-> <<>>]
JsNaN == [type |-> "NaN", num |-> 0, items |-> <<>>]
JsNum(n) == [type |-> "number", num |-> n, items |-> <<>>]
JsArray(xs) == [type |-> "array", num |-> 0, items |-> xs]

StorageKeys == {"k1", "k2"}

NoGet == [op |-> "none", key |-> "k1", def |-> JsUndefined, ret |-> JsUndefined]

\* LocalStorageService after construction: empty storage, fullstorage = false
LsInit == [storage |-> EmptyMap, fullstorage |-> FALSE, ops |-> 0,
           want |-> [k \in StorageKeys |-> JsUndefined], got |-> NoGet]

\* ElectronRemoteContribution: no remember() call made
RemInit == [calls |-> <<>>, started |-> 0, done |-> <<>>, cleared |-> FALSE]

\* the variables of the highlighting service and its editors
hlVars == <<view, viewHandles, nextHandle, decorations, toDisposeOnEditorClose,
            pending, ready, nextCall, last, lastCalls, lastRet, latest, serial,
            svcDisposed, listeners, fresh>>

RECURSIVE Opened(_)
Opened(D) ==
    IF D = {} THEN 0
    ELSE LET d == CHOOSE x \in D : TRUE IN view[d].gen + Opened(D \ {d})

InFlight(d) ==
    \/ \E c \in pending : c.doc = d
    \/ \E i \in 1..Len(ready) : ready[i].doc = d

InitService ==
    /\ view = [d \in Docs |-> [open |-> FALSE, kind |-> "none", gen |-> 0]]
    /\ viewHandles = [d \in Docs |-> {}]
    /\ nextHandle = [d \in Docs |-> 0]
    /\ decorations = EmptyMap
    /\ toDisposeOnEditorClose = EmptyMap
    /\ pending = {}
    /\ ready = <<>>
    /\ nextCall = 0
    /\ last = NoOp
    /\ lastCalls = <<>>
    /\ lastRet = [d \in Docs |-> <<>>]
    /\ latest = [d \in Docs |-> [l \in Lines |-> 0]]
    /\ serial = [d \in Docs |-> <<>>]
    /\ svcDisposed = FALSE
    /\ listeners = [d \in Docs |-> 0]
    /\ fresh = [d \in Docs |-> FALSE]

Init ==
    /\ InitService
    /\ mrg = MrgIdle
    /\ rp = RpIdle
    /\ ls = LsInit
    /\ rem = RemInit

(***************************************************************************)
(* The collaborators.                                                      *)
(***************************************************************************)
\* The editor instance a widget refers to is the one currently open.
EditorLive(d, w) == view[d].open /\ view[d].gen = w.gen

\* editorManager.getByUri(uri): the widget of the open editor, or undefined.
GetByUri(d) ==
    IF view[d].open THEN [kind |-> view[d].kind, gen |-> view[d].gen]
    ELSE NoWidget

\* editor.deltaDecorations returns one fresh id per new decoration; an editor
\* that has been closed applies nothing and returns no id.
DeltaResult(d, live, n) ==
    IF live THEN [i \in 1..n |-> nextHandle[d] + i] ELSE <<>>

\* The onDispose listener of editor instance g of document d is registered
\* and has not been disposed.
ListenerRegistered(d, g) ==
    /\ d \in DOMAIN toDisposeOnEditorClose
    /\ toDisposeOnEditorClose[d].gen = g
    /\ ~toDisposeOnEditorClose[d].disposed

(***************************************************************************)
(* decorate(uri, ranges), lines 42-75.                                     *)
(***************************************************************************)
\* variant of IsMonacoEditor without the instanceof test
IsMonacoEditor_Any(w) == TRUE

\* editorWidget.editor instanceof MonacoEditor (line 47)
IsMonacoEditor(w) == w.kind = "monaco"

\* lines 44-49: the call goes on past the two early returns
Proceeds(w) == w # NoWidget /\ IsMonacoEditor(w)

\* variant of NeedsSubscription that registers on every update
NeedsSubscription_Always(d) == TRUE

\* line 54: !this.toDisposeOnEditorClose.has(key)
NeedsSubscription(d) == d \notin DOMAIN toDisposeOnEditorClose

\* line 55: editor.onDispose(...) is called once when the test of line 54 holds
ListenersAfterDecorate(d) ==
    IF NeedsSubscription(d)
    THEN [listeners EXCEPT ![d] = @ + 1]
    ELSE listeners

\* lines 54-56
SubsAfterDecorate(d, w) ==
    IF NeedsSubscription(d)
    THEN MapSet(toDisposeOnEditorClose, d, [gen |-> w.gen, disposed |-> FALSE])
    ELSE toDisposeOnEditorClose

\* this.decorations.get(key) || DecorationWithRanges.EMPTY
CacheOf(d) == IF d \in DOMAIN decorations THEN decorations[d] ELSE EMPTY

\* variant of OldStateFor that reads the entry before the await of line 43
OldStateFor_AtCall(c) == c.snap

\* line 58, evaluated when the call continues after the await of line 43
OldStateFor(c) == CacheOf(c.doc)

\* variant of DecorationsAfterApply that caches the new state although the
\* deltaDecorations call threw
DecorationsAfterApply_CachesOnFail(d, outcome, rangesToCache, newState) ==
    MapSet(decorations, d, [ranges |-> rangesToCache, decorations |-> newState])

\* lines 65-74: this.decorations.set is reached only when the deltaDecorations
\* call of line 65 returned; when it throws, decorate ends at line 65
DecorationsAfterApply(d, outcome, rangesToCache, newState) ==
    IF outcome = "fail"
    THEN decorations
    ELSE MapSet(decorations, d, [ranges |-> rangesToCache, decorations |-> newState])

\* the call starts and suspends at the await of line 43
DecorateStart(d, lines) ==
    /\ nextCall < MaxUpdates
    /\ nextCall' = nextCall + 1
    /\ pending' = pending \cup
          {[id |-> nextCall + 1, doc |-> d,
            ranges |-> [i \in 1..Len(lines) |-> HRange(lines[i], nextCall + 1)],
            snap |-> CacheOf(d)]}
    /\ last' = NoOp
    /\ lastCalls' = <<>>
    /\ UNCHANGED <<mrg, rp, ls, rem, envVars, svcVars, ready, histVars>>

\* the promise of getByUri settles; the continuation is queued
LookupDone(c) ==
    /\ c \in pending
    /\ pending' = pending \ {c}
    /\ ready' = Append(ready, [id |-> c.id, doc |-> c.doc, ranges |-> c.ranges,
                               snap |-> c.snap, widget |-> GetByUri(c.doc)])
    /\ last' = NoOp
    /\ lastCalls' = <<>>
    /\ UNCHANGED <<mrg, rp, ls, rem, envVars, svcVars, nextCall, histVars>>

\* lines 44-49: no widget, or not a Monaco editor
DecorateReturn ==
    /\ ready # <<>>
    /\ LET c == Head(ready) IN
        /\ ~Proceeds(c.widget)
        /\ ready' = Tail(ready)
        /\ last' = [op |-> "decorate", doc |-> c.doc, widget |-> c.widget,
                    outcome |-> "return", raced |-> c.snap # CacheOf(c.doc)]
        /\ lastCalls' = <<>>
        /\ UNCHANGED <<mrg, rp, ls, rem, envVars, svcVars, pending, nextCall, histVars>>

\* lines 51-74, run without suspension; lineCount is what model.getLineCount()
\* returns at that moment (the document may have been edited since the last call)
DecorateApply(outcome, lineCount) ==
    /\ ready # <<>>
    /\ LET c == Head(ready)
           d == c.doc
           w == c.widget
           live == EditorLive(d, w)
           oldState == OldStateFor(c)
           rangesToCache == mergeRanges(lineCount, oldState.ranges, c.ranges)
           oldDecorations == oldState.decorations
           newState == DeltaResult(d, live, Len(rangesToCache))
           call == [doc |-> d, gen |-> w.gen, remove |-> oldDecorations,
                    oldRanges |-> oldState.ranges, lineCount |-> lineCount,
                    add |-> Len(rangesToCache), prev |-> lastRet[d],
                    onView |-> IF live THEN viewHandles[d] ELSE {},
                    outcome |-> outcome]
       IN
        /\ Proceeds(w)
        /\ outcome \in (IF live THEN {"ok"} ELSE {"empty"}) \cup {"fail"}
        /\ ready' = Tail(ready)
        /\ toDisposeOnEditorClose' = SubsAfterDecorate(d, w)
        /\ listeners' = ListenersAfterDecorate(d)
        /\ fresh' = IF live THEN [fresh EXCEPT ![d] = FALSE] ELSE fresh
        /\ lastCalls' = <<call>>
        /\ last' = [op |-> "decorate", doc |-> d, widget |-> w,
                    outcome |-> outcome, raced |-> c.snap # CacheOf(d)]
        /\ decorations' = DecorationsAfterApply(d, outcome, rangesToCache, newState)
        /\ IF outcome = "fail"
           THEN \* deltaDecorations (or getLineCount of a closed editor) throws
                UNCHANGED <<viewHandles, nextHandle, lastRet, latest, serial>>
           ELSE /\ viewHandles' = IF live
                      THEN [viewHandles EXCEPT
                              ![d] = (@ \ Elems(oldDecorations)) \cup Elems(newState)]
                      ELSE viewHandles
                /\ nextHandle' = [nextHandle EXCEPT ![d] = @ + Len(newState)]
                /\ lastRet' = [lastRet EXCEPT ![d] = newState]
                /\ latest' = [latest EXCEPT ![d] =
                      [l \in Lines |->
                         IF \E i \in 1..Len(c.ranges) : c.ranges[i].line = l
                         THEN c.id ELSE @[l]]]
                /\ serial' = [serial EXCEPT
                      ![d] = mergeRanges(lineCount, @, c.ranges)]
        /\ UNCHANGED <<mrg, rp, ls, rem, view, pending, nextCall, svcDisposed>>

(***************************************************************************)
(* deleteDecorations(uri, editor), lines 81-96, the onDispose listener.    *)
(***************************************************************************)
\* lines 82-88: the clearing call, made only when the document has an entry
DeleteDecorationsCalls(d, outcome) ==
    IF d \in DOMAIN decorations
    THEN <<[doc |-> d, gen |-> view[d].gen,
            remove |-> decorations[d].decorations,
            oldRanges |-> decorations[d].ranges, lineCount |-> 0, add |-> 0,
            prev |-> lastRet[d], onView |-> viewHandles[d], outcome |-> outcome]>>
    ELSE <<>>

\* variant of DecorationsAfterDelete that empties the whole map
DecorationsAfterDelete_ClearsAll(d) == EmptyMap

\* line 89
DecorationsAfterDelete(d) == MapDelete(decorations, d)

\* lines 91-95
SubsAfterDelete(d) == MapDelete(toDisposeOnEditorClose, d)

\* lines 91-94: disposable.dispose() on the Disposable held for the document
ListenersAfterDelete(d) ==
    IF d \in DOMAIN toDisposeOnEditorClose /\ ~toDisposeOnEditorClose[d].disposed
    THEN [listeners EXCEPT ![d] = @ - 1]
    ELSE listeners

\* The open editor of d is closed: its onDispose event fires once.  outcome:
\* the deltaDecorations call of line 85 returns ("ok") or throws ("fail"); when
\* it throws, deleteDecorations ends at line 85 and lines 89-95 are not run.
Close(d, outcome) ==
    /\ view[d].open
    /\ LET g == view[d].gen IN
        /\ outcome = "fail" => (ListenerRegistered(d, g) /\ d \in DOMAIN decorations)
        /\ IF ListenerRegistered(d, g)
           THEN IF outcome = "fail"
                THEN /\ lastCalls' = DeleteDecorationsCalls(d, outcome)
                     /\ UNCHANGED <<svcVars, lastRet, serial, listeners>>
                ELSE /\ decorations' = DecorationsAfterDelete(d)
                     /\ toDisposeOnEditorClose' = SubsAfterDelete(d)
                     /\ listeners' = ListenersAfterDelete(d)
                     /\ lastCalls' = DeleteDecorationsCalls(d, outcome)
                     /\ lastRet' = [lastRet EXCEPT ![d] = <<>>]
                     /\ serial' = [serial EXCEPT ![d] = <<>>]
           ELSE /\ lastCalls' = <<>>
                /\ UNCHANGED <<svcVars, lastRet, serial, listeners>>
        /\ view' = [view EXCEPT ![d] = [open |-> FALSE, kind |-> "none", gen |-> g]]
        /\ viewHandles' = [viewHandles EXCEPT ![d] = {}]
        /\ last' = [op |-> "close", doc |-> d,
                    widget |-> [kind |-> view[d].kind, gen |-> g],
                    outcome |-> IF outcome = "fail" THEN "failed" ELSE "first",
                    raced |-> FALSE]
        /\ fresh' = [fresh EXCEPT ![d] = FALSE]
        /\ UNCHANGED <<mrg, rp, ls, rem, nextHandle, callVars, latest, svcDisposed>>

\* A further close notification for an editor that is already closed: the
\* onDispose event has fired, no listener is called.
CloseAgain(d) ==
    /\ ~view[d].open
    /\ view[d].gen > 0
    /\ last # [op |-> "close", doc |-> d,
               widget |-> [kind |-> view[d].kind, gen |-> view[d].gen],
               outcome |-> "again", raced |-> FALSE]
    /\ last' = [op |-> "close", doc |-> d,
                widget |-> [kind |-> view[d].kind, gen |-> view[d].gen],
                outcome |-> "again", raced |-> FALSE]
    /\ lastCalls' = <<>>
    /\ UNCHANGED <<mrg, rp, ls, rem, envVars, svcVars, callVars, histVars>>

(***************************************************************************)
(* dispose(), lines 77-79: disposes every Disposable held in the map.      *)
(***************************************************************************)
SubsAfterDispose ==
    [d \in DOMAIN toDisposeOnEditorClose |->
        [toDisposeOnEditorClose[d] EXCEPT !.disposed = TRUE]]

\* line 78: each Disposable held in the map is disposed
ListenersAfterDispose ==
    [d \in Docs |->
        IF d \in DOMAIN toDisposeOnEditorClose /\ ~toDisposeOnEditorClose[d].disposed
        THEN listeners[d] - 1
        ELSE listeners[d]]

Dispose ==
    /\ ~svcDisposed
    /\ toDisposeOnEditorClose' = SubsAfterDispose
    /\ listeners' = ListenersAfterDispose
    /\ svcDisposed' = TRUE
    /\ last' = [NoOp EXCEPT !.op = "dispose"]
    /\ lastCalls' = <<>>
    /\ UNCHANGED <<mrg, rp, ls, rem, envVars, decorations, callVars, lastRet,
                   latest, serial, fresh>>

(***************************************************************************)
(* The environment: an editor of a document opens.                         *)
(***************************************************************************)
Open(d, k) ==
    /\ ~view[d].open
    /\ Opened(Docs) < MaxOpens
    /\ view' = [view EXCEPT ![d] = [open |-> TRUE, kind |-> k, gen |-> @.gen + 1]]
    /\ fresh' = [fresh EXCEPT ![d] = view[d].gen > 0]
    /\ last' = NoOp
    /\ lastCalls' = <<>>
    /\ UNCHANGED <<mrg, rp, ls, rem, viewHandles, nextHandle, svcVars, callVars,
                   lastRet, latest, serial, svcDisposed, listeners>>

Next ==
    \/ \E d \in Docs, k \in {"monaco", "other"} : Open(d, k)
    \/ \E d \in Docs, lines \in SeqsUpTo(Lines, MaxBatchLen) : DecorateStart(d, lines)
    \/ \E c \in pending : LookupDone(c)
    \/ DecorateReturn
    \/ \E o \in {"ok", "empty", "fail"}, n \in LineCounts : DecorateApply(o, n)
    \/ \E d \in Docs, o \in {"ok", "fail"} : Close(d, o)
    \/ \E d \in Docs : CloseAgain(d)
    \/ Dispose

Spec == Init /\ [][Next]_vars

(***************************************************************************)
(* mergeRanges alone, on arguments drawn from bounded sets.                *)
(***************************************************************************)
\* two labels tell apart ranges that start on the same line
MergeTags == {1, 2}

MergeRangeSet == {HRange(l, t) : l \in Lines, t \in MergeTags}

MergeInit ==
    /\ InitService
    /\ rp = RpIdle
    /\ ls = LsInit
    /\ rem = RemInit
    /\ mrg \in [pc : {"call"},
                lineCount : 0..(MaxLine + 1),
                oldRanges : SeqsUpTo(MergeRangeSet, MaxMergeLen),
                newRanges : SeqsUpTo(MergeRangeSet, MaxMergeLen),
                result : {<<>>}]

MergeCall ==
    /\ mrg.pc = "call"
    /\ mrg' = [mrg EXCEPT
                 !.pc = "done",
                 !.result = mergeRanges(mrg.lineCount, mrg.oldRanges, mrg.newRanges)]
    /\ UNCHANGED <<hlVars, rp, ls, rem>>

\* the next update of the document arrives with the same batch and the same
\* line count: the ranges cached by the first call (lines 71-74) are the
\* oldState.ranges of the second (lines 58-60)
MergeAgain ==
    /\ mrg.pc = "done"
    /\ mrg' = [mrg EXCEPT
                 !.pc = "again",
                 !.result = mergeRanges(mrg.lineCount, mrg.result, mrg.newRanges)]
    /\ UNCHANGED <<hlVars, rp, ls, rem>>

MergeNext ==
    \/ MergeCall
    \/ MergeAgain

SpecMerge == MergeInit /\ [][MergeNext]_vars

(***************************************************************************)
(* DefaultResourceProvider.get(uri), lines 185-199.  A resolver is given   *)
(* by what its resolve(uri) promise does: it resolves with a resource, or  *)
(* rejects with a truthy reason, or rejects with a falsy reason (such as   *)
(* undefined).  this.resolvers is what the container injects for          *)
(* @multiInject @optional: undefined when no resolver is bound, otherwise  *)
(* the non-empty array of the bound resolvers.                             *)
(***************************************************************************)
ResolverBehaviours == {"resolve", "reject", "rejectFalsy"}

\* the resource that resolver i resolves with
ResourceOf(i) == [type |-> "resource", from |-> i]

\* the reason that resolver i rejects with
ReasonOf(i, b) ==
    IF b = "reject" THEN [type |-> "reason", from |-> i]
    ELSE [type |-> "falsy", from |-> i]

\* createNotRegisteredError(uri), lines 201-203
NotRegisteredError == [type |-> "notRegisteredError", from |-> 0]

\* variant of CallsNext for a handler that runs however the promise settled
CallsNext_OnAnySettle(b) == TRUE

\* line 194: the handler given to current.catch runs when current rejected
CallsNext(b) == b # "resolve"

\* line 198: .catch(reason => !!reason ? reason : this.createNotRegisteredError(uri));
\* the handler returns a value, so the promise it gives resolves with it
FinalCatch(reason) ==
    [kind |-> "resolved",
     value |-> IF reason.type # "falsy" THEN reason ELSE NotRegisteredError]

ResourceInit ==
    /\ InitService
    /\ mrg = MrgIdle
    /\ ls = LsInit
    /\ rem = RemInit
    /\ rp \in [pc : {"call"}, defined : {TRUE},
                resolvers : SeqsUpTo(ResolverBehaviours, MaxResolvers) \ {<<>>},
                called : {<<>>}, cur : {0}, result : {NoResult}]
             \cup {[RpIdle EXCEPT !.pc = "call"]}

\* lines 188-192: get(uri) up to the call of the first resolver
GetCall ==
    /\ rp.pc = "call"
    /\ rp' = IF ~rp.defined
             THEN \* lines 189-191
                  [rp EXCEPT !.pc = "done",
                             !.result = [kind |-> "rejected",
                                         value |-> NotRegisteredError]]
             ELSE \* lines 192-198: the first resolver is called, the chain is built
                  [rp EXCEPT !.pc = "wait", !.cur = 1, !.called = <<1>>]
    /\ UNCHANGED <<hlVars, mrg, ls, rem>>

\* the promise of the resolver called last settles and the handlers of the
\* chain built at lines 193-198 run
ResolverSettles ==
    /\ rp.pc = "wait"
    /\ LET i == rp.cur
           b == rp.resolvers[i]
       IN  rp' = IF CallsNext(b)
                 THEN IF i < Len(rp.resolvers)
                      THEN \* line 195: provider.resolve(uri)
                           [rp EXCEPT !.cur = i + 1, !.called = Append(@, i + 1)]
                      ELSE \* line 198
                           [rp EXCEPT !.pc = "done",
                                      !.result = FinalCatch(ReasonOf(i, b))]
                 ELSE \* a resolved promise passes every catch
                      [rp EXCEPT !.pc = "done",
                                 !.result = [kind |-> "resolved",
                                             value |-> ResourceOf(i)]]
    /\ UNCHANGED <<hlVars, mrg, ls, rem>>

ResourceNext ==
    \/ GetCall
    \/ ResolverSettles

SpecResource == ResourceInit /\ [][ResourceNext]_vars

(***************************************************************************)
(* LocalStorageService, storage-service.ts lines 45-107.  A JSON text is   *)
(* modelled by the value it denotes.                                       *)
(***************************************************************************)
\* JSON.stringify(data): NaN is written as null
JSONstringify(data) ==
    [text |-> IF data.type = "NaN" THEN JsNull ELSE data]

\* JSON.parse(result)
JSONparse(result) == result.text

\* window.location.pathname of the page
Pathname == "/"

\* prefix(key), lines 89-92: `theia:${pathname}:${key}`
prefix(key) == <<"theia", Pathname, key>>

\* isLocalStorageFull(), lines 104-106
isLocalStorageFull == ls.fullstorage

\* setData, lines 62-79, the storage it leaves; quota: the assignment of
\* line 66 throws the quota error of the browser
StorageAfterSet(storage, key, data, quota) ==
    IF data # JsUndefined
    THEN IF ~isLocalStorageFull /\ ~quota
         THEN MapSet(storage, prefix(key), JSONstringify(data))
         ELSE storage
    ELSE MapDelete(storage, prefix(key))

\* setData, lines 68-74: the catch block sets the flag
FullAfterSet(data, quota) ==
    IF data # JsUndefined /\ ~isLocalStorageFull /\ quota
    THEN TRUE
    ELSE ls.fullstorage

\* getData, lines 81-87, the value its promise resolves with
GetDataValue(storage, key, defaultValue) ==
    IF prefix(key) \notin DOMAIN storage
    THEN defaultValue
    ELSE JSONparse(storage[prefix(key)])

StorageData == {JsNum(1), JsNum(2), JsNaN}

\* setData(key, data)
SetData(key, data, quota) ==
    /\ ls.ops < MaxStorageOps
    /\ quota => (data # JsUndefined /\ ~isLocalStorageFull)
    /\ ls' = [ls EXCEPT
                !.storage = StorageAfterSet(ls.storage, key, data, quota),
                !.fullstorage = FullAfterSet(data, quota),
                !.ops = @ + 1,
                !.want = [@ EXCEPT ![key] = data],
                !.got = NoGet]
    /\ UNCHANGED <<hlVars, mrg, rp, rem>>

\* getData(key, defaultValue)
GetData(key, defaultValue) ==
    /\ ls.ops < MaxStorageOps
    /\ ls' = [ls EXCEPT
                !.ops = @ + 1,
                !.got = [op |-> "get", key |-> key, def |-> defaultValue,
                         ret |-> GetDataValue(ls.storage, key, defaultValue)]]
    /\ UNCHANGED <<hlVars, mrg, rp, rem>>

StorageNext ==
    \/ \E k \in StorageKeys, d \in StorageData \cup {JsUndefined}, q \in BOOLEAN :
          SetData(k, d, q)
    \/ \E k \in StorageKeys, d \in {JsUndefined, JsNum(1)} : GetData(k, d)

SpecStorage == Init /\ [][StorageNext]_vars

(***************************************************************************)
(* ElectronRemoteContribution.remember(url),                               *)
(* electron-remote-contribution.ts lines 82-94, on a LocalStorageService.  *)
(* getData reads the storage when it is called and returns a resolved      *)
(* promise, so the calls suspended at the await of line 83 continue in     *)
(* the order in which they were made.                                      *)
(***************************************************************************)
\* ElectronRemoteHistory.KEY, line 45
KEY == "theia.remote.history"

Urls == {"", "http://a", "http://b c"}

\* encodeURI(url): a space is written as %20
EncodeURI(url) == IF url = "http://b c" THEN "http://b%20c" ELSE url

\* decodeURI(entry), line 79
DecodeURI(entry) == IF entry = "http://b%20c" THEN "http://b c" ELSE entry

\* lines 86-89: history.indexOf(encoded) and history.splice(currentIndex, 1)
RECURSIVE RemoveFirst(_, _)
RemoveFirst(history, encoded) ==
    IF history = <<>> THEN <<>>
    ELSE IF Head(history) = encoded THEN Tail(history)
    ELSE <<Head(history)>> \o RemoveFirst(Tail(history), encoded)

\* lines 84-91: the array handed to setData
HistoryAfterRemember(history, url) ==
    Append(RemoveFirst(history, EncodeURI(url)), EncodeURI(url))

\* line 83 up to the await: getData has read the storage
RememberStart(url) ==
    /\ rem.started < MaxRemember
    /\ rem' = [rem EXCEPT
                 !.started = @ + 1,
                 !.calls = Append(@, [url |-> url,
                     history |-> GetDataValue(ls.storage, KEY, JsArray(<<>>)).items])]
    /\ UNCHANGED <<hlVars, mrg, rp, ls>>

\* line 85: if (encoded) -- the empty string is falsy
Encoded(url) == EncodeURI(url) # ""

\* lines 84-93: the call continues after the await; with a non-empty encoded
\* URL it ends with setData, otherwise it stores nothing
RememberFinish(quota) ==
    /\ rem.calls # <<>>
    /\ quota => (~isLocalStorageFull /\ Encoded(Head(rem.calls).url))
    /\ LET c == Head(rem.calls)
           history == HistoryAfterRemember(c.history, c.url)
       IN  /\ ls' = IF Encoded(c.url)
                    THEN [ls EXCEPT
                            !.storage = StorageAfterSet(ls.storage, KEY,
                                                        JsArray(history), quota),
                            !.fullstorage = FullAfterSet(JsArray(history), quota)]
                    ELSE ls
           /\ rem' = [rem EXCEPT !.calls = Tail(@), !.done = Append(@, c.url)]
    /\ UNCHANGED <<hlVars, mrg, rp>>

\* clearHistory(), lines 96-98: setData(KEY, undefined) deletes the stored history
ClearHistory ==
    /\ ls' = [ls EXCEPT
                !.storage = StorageAfterSet(ls.storage, KEY, JsUndefined, FALSE),
                !.fullstorage = FullAfterSet(JsUndefined, FALSE)]
    /\ rem' = [rem EXCEPT !.cleared = TRUE]
    /\ UNCHANGED <<hlVars, mrg, rp>>

RememberNext ==
    \/ \E u \in Urls : RememberStart(u)
    \/ \E q \in BOOLEAN : RememberFinish(q)
    \/ ClearHistory

SpecRemember == Init /\ [][RememberNext]_vars

(***************************************************************************)
(* Properties.                                                             *)
(***************************************************************************)
\* The document is Absent: no cache entry, no close subscription, no
\* semantic highlighting decoration on its editor.
Absent(d) ==
    /\ d \notin DOMAIN decorations
    /\ d \notin DOMAIN toDisposeOnEditorClose
    /\ viewHandles[d] = {}

\* The old ranges that the merge keeps: start line not a start line of a new
\* range, and within [0, n).
KeptOld(n, oldRanges, newRanges) ==
    LET Keep(r) == /\ \A i \in 1..Len(newRanges) : newRanges[i].line # r.line
                   /\ 0 <= r.line
                   /\ r.line < n
    IN  SelectSeq(oldRanges, Keep)

\* C1: mergeRanges returns the old ranges, in their order, whose start line
\* is no start line of a new range and lies in [0, N), followed by all the
\* new ranges in their order; the two argument lists are left as they were.
C1_MergeResult ==
    [][(mrg.pc = "call" /\ mrg'.pc = "done") =>
          /\ mrg'.result =
                KeptOld(mrg.lineCount, mrg.oldRanges, mrg.newRanges) \o mrg.newRanges
          /\ mrg'.oldRanges = mrg.oldRanges
          /\ mrg'.newRanges = mrg.newRanges
          /\ mrg'.lineCount = mrg.lineCount]_vars

\* C1 witness: a merge that kept one old range, dropped another one and
\* appended a new range.
C1_Witness ==
    /\ mrg.pc = "done"
    /\ Len(mrg.oldRanges) = 2
    /\ Len(mrg.newRanges) >= 1
    /\ Len(mrg.result) = Len(mrg.newRanges) + 1
    /\ mrg.result[1] = mrg.oldRanges[2]

\* C2: new data wins per line: every cached range starting at line L comes
\* from the latest applied batch that has a range starting at L.
C2_NewWinsPerLine ==
    \A d \in DOMAIN decorations :
        \A i \in 1..Len(decorations[d].ranges) :
            LET r == decorations[d].ranges[i]
            IN  r.batch = latest[d][r.line]

\* C2 witness: an update whose batch starts at a line for which a range of an
\* earlier batch was cached; the cache now holds the new range only.
C2_Witness ==
    /\ last.op = "decorate"
    /\ last.outcome = "ok"
    /\ Len(lastCalls) = 1
    /\ \E i \in 1..Len(lastCalls[1].oldRanges) :
          /\ lastCalls[1].oldRanges[i].line < lastCalls[1].lineCount
          /\ \E j \in 1..Len(decorations[last.doc].ranges) :
                /\ decorations[last.doc].ranges[j].line = lastCalls[1].oldRanges[i].line
                /\ decorations[last.doc].ranges[j].batch # lastCalls[1].oldRanges[i].batch

\* C3: overlapping decorate() calls on a document take effect one at a time,
\* in the order their lookups settled: the cached ranges are those of the
\* one-call-at-a-time execution, the cached handles are those the latest
\* deltaDecorations call returned, and every call removes exactly them.
C3_NoLostUpdate ==
    /\ \A d \in Docs : CacheOf(d).ranges = serial[d]
    /\ \A d \in DOMAIN decorations : decorations[d].decorations = lastRet[d]
    /\ \A i \in 1..Len(lastCalls) : lastCalls[i].remove = lastCalls[i].prev

\* C3 witness: a call that was suspended while another call on the same
\* document took effect has been applied, and both batches are cached.
C3_Witness ==
    /\ last.op = "decorate"
    /\ last.outcome = "ok"
    /\ last.raced
    /\ Len(decorations[last.doc].ranges) = 2
    /\ decorations[last.doc].ranges[1].batch # decorations[last.doc].ranges[2].batch

\* C4: when the editor closes while a decorate() on its document is in
\* flight, then once the call has finished the document is Absent.
C4_AbsentAfterCloseInFlight ==
    (/\ last.op = "decorate"
     /\ ~svcDisposed
     /\ last.widget # NoWidget
     /\ ~EditorLive(last.doc, last.widget)
     /\ ~InFlight(last.doc))
    => Absent(last.doc)

\* C5: the first close of a tracked document makes exactly one clearing
\* deltaDecorations call (cached handles removed, nothing added) and leaves
\* the document without cache entry and close subscription; a further close
\* changes nothing and calls nothing.
C5_ClearOnceAtFirstClose ==
    [][\A d \in Docs :
        /\ (/\ view[d].open /\ ~view'[d].open
            /\ d \in DOMAIN decorations
            /\ ListenerRegistered(d, view[d].gen))
           => /\ Len(lastCalls') = 1
              /\ lastCalls'[1].doc = d
              /\ lastCalls'[1].remove = decorations[d].decorations
              /\ lastCalls'[1].add = 0
              /\ d \notin DOMAIN decorations'
              /\ d \notin DOMAIN toDisposeOnEditorClose'
        /\ (/\ last' # last
            /\ last'.op = "close" /\ last'.doc = d /\ last'.outcome = "again")
           => /\ lastCalls' = <<>>
              /\ UNCHANGED <<view, viewHandles, decorations,
                             toDisposeOnEditorClose>>]_vars

\* the case of C5 in which the clearing call returns: open, two updates
\* applied, close, close again; the handles were cleared by the first close and
\* the document is Absent
C5_CleanCloseReached ==
    /\ last.op = "close"
    /\ last.outcome = "again"
    /\ ~svcDisposed
    /\ \A l \in Lines : latest[last.doc][l] > 0
    /\ \E l \in Lines : latest[last.doc][l] = 2
    /\ nextHandle[last.doc] > 0
    /\ lastRet[last.doc] = <<>>
    /\ Absent(last.doc)

\* C6: every deltaDecorations call removes exactly the handles the previous
\* call for the document returned, these are live on the editor they are
\* passed to, and the decorations live on a document's editor are exactly the
\* cached handles.
C6_NoStaleHandles ==
    /\ \A i \in 1..Len(lastCalls) :
          /\ lastCalls[i].remove = lastCalls[i].prev
          /\ Elems(lastCalls[i].remove) \subseteq lastCalls[i].onView
    /\ \A d \in Docs : viewHandles[d] = Elems(CacheOf(d).decorations)

\* C7: every cache entry has as many decoration handles as ranges.
C7_HandleParity ==
    \A d \in DOMAIN decorations :
        Len(decorations[d].decorations) = Len(decorations[d].ranges)

\* C8: a document has a close subscription if and only if it has a cache
\* entry, and no subscription held in the map has been disposed.
C8_SubscriptionIffEntry ==
    /\ DOMAIN toDisposeOnEditorClose = DOMAIN decorations
    /\ \A d \in DOMAIN toDisposeOnEditorClose : ~toDisposeOnEditorClose[d].disposed

\* C9: after dispose() no document is tracked: no cache entry, no close
\* subscription and no semantic highlighting decoration is left.
C9_DisposeUntracksAll ==
    last.op = "dispose" => \A d \in Docs : Absent(d)

\* C10: a decorate() whose lookup gave no widget, or a widget whose editor is
\* not a Monaco editor, changes neither map, registers no subscription and
\* makes no deltaDecorations call.
C10_NoViewNoOp ==
    [][(/\ ready # <<>>
        /\ ready' = Tail(ready)
        /\ \/ Head(ready).widget = NoWidget
           \/ Head(ready).widget.kind # "monaco")
       => /\ UNCHANGED <<decorations, toDisposeOnEditorClose, viewHandles,
                         nextHandle, lastRet>>
          /\ lastCalls' = <<>>]_vars

\* C10 witness: a decorate() for a document shown in an editor that is not a
\* Monaco editor has returned, while another document is tracked.
C10_Witness ==
    /\ last.op = "decorate"
    /\ last.outcome = "return"
    /\ last.widget.kind = "other"
    /\ DOMAIN decorations # {}
    /\ last.doc \notin DOMAIN decorations

\* reachability of the other case of C10: the lookup gave no widget
C10_NoViewReached ==
    /\ last.op = "decorate"
    /\ last.outcome = "return"
    /\ last.widget = NoWidget
    /\ DOMAIN decorations # {}

\* C11: when the deltaDecorations call of a decorate() throws, the document's
\* cache is what it was before the call (no entry stays no entry, an entry
\* keeps its ranges and handles) and the decorations on the editor are
\* untouched, so cached handles that were the live ones still are.
C11_FailedApplyIsNoOp ==
    [][(/\ ready # <<>>
        /\ ready' = Tail(ready)
        /\ last'.op = "decorate"
        /\ last'.outcome = "fail")
       => /\ \A d \in Docs :
                /\ (d \in DOMAIN decorations') = (d \in DOMAIN decorations)
                /\ (viewHandles[d] = Elems(CacheOf(d).decorations)
                      => viewHandles'[d] = Elems(CacheOf(d).decorations)')
          /\ decorations' = decorations
          /\ viewHandles' = viewHandles
          /\ lastRet' = lastRet]_vars

\* C11 witness: the deltaDecorations call of an update of a tracked document
\* threw; the entry still holds the handle that is live on the editor.
C11_Witness ==
    /\ last.op = "decorate"
    /\ last.outcome = "fail"
    /\ Len(lastCalls) = 1
    /\ lastCalls[1].remove # <<>>
    /\ last.doc \in DOMAIN decorations
    /\ decorations[last.doc].decorations = lastCalls[1].remove
    /\ decorations[last.doc].ranges = lastCalls[1].oldRanges
    /\ viewHandles[last.doc] = Elems(decorations[last.doc].decorations)

\* reachability of the other case of C11: the first update of a document failed
C11_FirstUpdateFailed ==
    /\ last.op = "decorate"
    /\ last.outcome = "fail"
    /\ last.doc \notin DOMAIN decorations
    /\ EditorLive(last.doc, last.widget)

\* C12: with a line count of 0, mergeRanges returns the empty sequence
\* whatever the old and the new ranges are.
C12_ZeroLineCountGivesEmpty ==
    (mrg.pc = "done" /\ mrg.lineCount = 0) => mrg.result = <<>>

\* The ranges of R that start below line n, in their order.
BoundsFilter(R, n) ==
    LET Below(r) == r.line < n
    IN  SelectSeq(R, Below)

\* C13: an update with an empty batch keeps exactly the old ranges that
\* start below the line count, and a second empty update with the same line
\* count gives the same ranges again.
C13_EmptyUpdateIsBoundsFilter ==
    (mrg.pc \in {"done", "again"} /\ mrg.newRanges = <<>>)
        => mrg.result = BoundsFilter(mrg.oldRanges, mrg.lineCount)

\* C13 witness: two empty updates in a row on two old ranges of which one
\* starts at or beyond the line count; the other one is the result.
C13_Witness ==
    /\ mrg.pc = "again"
    /\ mrg.newRanges = <<>>
    /\ Len(mrg.oldRanges) = 2
    /\ mrg.oldRanges[1].line >= mrg.lineCount
    /\ mrg.result = <<mrg.oldRanges[2]>>

\* C14: the close subscription of a document is registered by the first
\* decorate() that reaches a Monaco editor of the document and not before; an
\* update of a document that has a subscription calls onDispose no further
\* time; at no time has a document more than one registration.
C14_OneLazySubscription ==
    [][/\ \A d \in Docs : listeners'[d] <= 1
       /\ \A d \in Docs :
            listeners'[d] > listeners[d]
               => /\ ready # <<>> /\ ready' = Tail(ready)
                  /\ last'.op = "decorate" /\ last'.doc = d
                  /\ last'.widget.kind = "monaco"
                  /\ d \notin DOMAIN toDisposeOnEditorClose
                  /\ d \in DOMAIN toDisposeOnEditorClose'
                  /\ listeners[d] = 0
       /\ \A d \in DOMAIN toDisposeOnEditorClose :
            (/\ ready # <<>> /\ ready' = Tail(ready)
             /\ last'.op = "decorate" /\ last'.doc = d)
               => /\ listeners'[d] = listeners[d]
                  /\ toDisposeOnEditorClose' = toDisposeOnEditorClose
       /\ \A d \in Docs \ DOMAIN toDisposeOnEditorClose :
            (/\ ready # <<>> /\ ready' = Tail(ready)
             /\ last'.op = "decorate" /\ last'.doc = d
             /\ last'.widget.kind = "monaco")
               => listeners'[d] = 1]_vars

\* C14 witness: the second update of a tracked document has been applied and
\* the document has one registration.
C14_Witness ==
    /\ last.op = "decorate"
    /\ last.outcome = "ok"
    /\ Len(lastCalls) = 1
    /\ lastCalls[1].remove # <<>>
    /\ listeners[last.doc] = 1
    /\ ListenerRegistered(last.doc, last.widget.gen)

\* The step is the continuation of a decorate() on document d, or the close
\* of the editor of d.
StepOn(d) ==
    \/ /\ ready # <<>> /\ ready' = Tail(ready)
       /\ last'.op = "decorate" /\ last'.doc = d
    \/ view[d].open /\ ~view'[d].open

\* C15: a decorate() or a close for one document leaves every other
\* document's cached ranges, cached handles, close subscription and editor
\* decorations as they were, and every deltaDecorations call it makes goes to
\* its own document with the handles of its own entry.
C15_NoCrossDocumentLeak ==
    [][\A d \in Docs :
         StepOn(d) =>
            /\ \A e \in Docs \ {d} :
                  /\ (e \in DOMAIN decorations') = (e \in DOMAIN decorations)
                  /\ CacheOf(e)' = CacheOf(e)
                  /\ (e \in DOMAIN toDisposeOnEditorClose')
                        = (e \in DOMAIN toDisposeOnEditorClose)
                  /\ (e \in DOMAIN toDisposeOnEditorClose
                        => toDisposeOnEditorClose'[e] = toDisposeOnEditorClose[e])
                  /\ listeners'[e] = listeners[e]
                  /\ viewHandles'[e] = viewHandles[e]
                  /\ view'[e] = view[e]
            /\ \A i \in 1..Len(lastCalls') :
                  /\ lastCalls'[i].doc = d
                  /\ lastCalls'[i].remove = CacheOf(d).decorations]_vars

\* C15 witness: an update of one document has been applied while the other
\* document is tracked with a range, a handle on its editor and a subscription.
C15_Witness ==
    /\ last.op = "decorate"
    /\ last.outcome = "ok"
    /\ Len(lastCalls) = 1
    /\ \E e \in Docs \ {last.doc} :
          /\ e \in DOMAIN decorations
          /\ decorations[e].decorations # <<>>
          /\ viewHandles[e] = Elems(decorations[e].decorations)
          /\ ListenerRegistered(e, view[e].gen)

\* reachability of the other case of C15: the close of one document cleared
\* its entry while the other document is tracked
C15_CloseReached ==
    /\ last.op = "close"
    /\ Len(lastCalls) = 1
    /\ \E e \in Docs \ {last.doc} :
          /\ e \in DOMAIN decorations
          /\ e \in DOMAIN toDisposeOnEditorClose

\* C16: get(uri) gives a promise that rejects when no resolver is registered
\* and when every resolver rejects, and a promise that resolves does so with
\* the resource of a resolver.
C16_RejectsWhenNoResource ==
    rp.pc = "done" =>
        /\ (\A i \in 1..Len(rp.resolvers) : rp.resolvers[i] # "resolve")
              => rp.result.kind = "rejected"
        /\ rp.result.kind = "resolved"
              => /\ rp.result.value.type = "resource"
                 /\ rp.result.value.from \in 1..Len(rp.resolvers)

\* C17: getData(key, defaultValue) resolves with the data most recently
\* passed to setData for the key when that was not undefined, and with
\* defaultValue when nothing is stored under the key (stated for data that
\* JSON writes and reads back unchanged).
C17_GetReturnsLastSet ==
    (ls.got.op = "get" /\ ls.want[ls.got.key] # JsNaN) =>
        ls.got.ret = (IF ls.want[ls.got.key] = JsUndefined
                      THEN ls.got.def
                      ELSE ls.want[ls.got.key])

\* C18: the first decorate() that is applied to the editor of a document
\* reopened after its close registers a new close subscription, passes no
\* handle for removal and caches exactly the ranges of its batch.
C18_FreshAfterClose ==
    [][\A d \in Docs :
         IF /\ ready # <<>> /\ ready' = Tail(ready)
            /\ last'.op = "decorate" /\ last'.doc = d /\ last'.outcome = "ok"
            /\ fresh[d]
         THEN /\ listeners'[d] = listeners[d] + 1
              /\ d \in DOMAIN toDisposeOnEditorClose'
              /\ toDisposeOnEditorClose'[d] = [gen |-> view[d].gen, disposed |-> FALSE]
              /\ Len(lastCalls') = 1
              /\ lastCalls'[1].remove = <<>>
              /\ d \in DOMAIN decorations'
              /\ decorations'[d].ranges = ready[1].ranges
         ELSE TRUE]_vars

\* the case of C18 without fault: a document tracked, closed with its entry
\* cleaned up, reopened and updated starts from the empty state
C18_CleanReopenReached ==
    /\ last.op = "decorate"
    /\ last.outcome = "ok"
    /\ last.widget.gen = 2
    /\ nextHandle[last.doc] > Len(lastRet[last.doc])
    /\ lastCalls[1].remove = <<>>
    /\ lastCalls[1].oldRanges = <<>>
    /\ ListenerRegistered(last.doc, 2)

\* The first resolver of the list that resolves (0 when none does).
FirstResolving(rs) ==
    IF \E i \in 1..Len(rs) : rs[i] = "resolve"
    THEN CHOOSE i \in 1..Len(rs) :
            /\ rs[i] = "resolve"
            /\ \A j \in 1..(i - 1) : rs[j] # "resolve"
    ELSE 0

\* C19: get(uri) calls the resolvers in registration order, each one only
\* when all the resolvers before it have been called and have rejected; the
\* promise resolves with the resource of the first resolver that resolves
\* and no resolver after that one is called.
C19_ResolversInOrder ==
    [][/\ rp'.called # rp.called
            => /\ rp'.called = Append(rp.called, Len(rp.called) + 1)
               /\ rp.called # <<>>
                    => /\ rp.pc = "wait"
                       /\ rp.cur = Len(rp.called)
                       /\ \A j \in 1..Len(rp.called) : rp.resolvers[j] # "resolve"
       /\ (rp'.pc = "done" /\ FirstResolving(rp'.resolvers) > 0)
            => /\ rp'.result = [kind |-> "resolved",
                                value |-> ResourceOf(FirstResolving(rp'.resolvers))]
               /\ rp'.called = [i \in 1..FirstResolving(rp'.resolvers) |-> i]]_vars

\* C19 witness: the first of three resolvers rejected, the second resolved:
\* get resolved with its resource and the third resolver was not called.
C19_Witness ==
    /\ rp.pc = "done"
    /\ Len(rp.resolvers) = 3
    /\ rp.resolvers[1] # "resolve"
    /\ rp.resolvers[2] = "resolve"
    /\ rp.called = <<1, 2>>
    /\ rp.result = [kind |-> "resolved", value |-> ResourceOf(2)]

\* the remote history as the `history` getter reads it (lines 77-80)
StoredHistory ==
    LET stored == GetDataValue(ls.storage, KEY, JsArray(<<>>)).items
    IN  [i \in 1..Len(stored) |-> DecodeURI(stored[i])]

\* The non-empty URLs whose remember() call has completed, in completion order.
RememberedUrls ==
    LET NonEmpty(u) == u # ""
    IN  SelectSeq(rem.done, NonEmpty)

\* C20: when every remember() call made has completed (no clearHistory and
\* no quota error having occurred), the stored history holds each remembered
\* URL exactly once and ends with the URL of the call that completed last
\* (stated for the non-empty URLs).
C20_NoLostUrl ==
    (/\ rem.calls = <<>> /\ RememberedUrls # <<>>
     /\ ~rem.cleared /\ ~ls.fullstorage) =>
        /\ \A u \in Elems(RememberedUrls) :
              Cardinality({i \in 1..Len(StoredHistory) : StoredHistory[i] = u}) = 1
        /\ StoredHistory # <<>>
        /\ StoredHistory[Len(StoredHistory)] = RememberedUrls[Len(RememberedUrls)]

\* the case of C20 without overlap: two calls, one after the other
C20_SequentialReached ==
    /\ rem.calls = <<>>
    /\ rem.done = <<"http://b c", "http://a">>
    /\ StoredHistory = <<"http://b c", "http://a">>

=============================================================================
